---- MODULE Spec2Model ----
(***************************************************************************)
(* setup-sriov-vfs (main.go): one sequential run of main().  A Go string   *)
(* is a sequence of one-character strings, so that Split, TrimSpace, Atoi, *)
(* ParseInt and Sprintf are computed character by character.  A file path  *)
(* is the sequence of its components.  The sysfs tree is the environment:  *)
(* what a read returns and whether a write succeeds is chosen when the     *)
(* program performs the operation.                                         *)
(***************************************************************************)
EXTENDS Integers, Sequences, FiniteSets, TLC

\* Largest NUM_VFS value explored.
MaxVFs == 2

VARIABLES
    numVFsStr,    \* os.Getenv("NUM_VFS")
    deviceID,     \* os.Getenv("DEVICE_ID")
    baseDir,      \* what os.ReadDir(infinibandBasePath) and os.Stat see
    pc,           \* position of main() in its code
    exitCode,     \* process exit status, -1 while running
    numVFs,       \* main: numVFs
    hcas,         \* main: hcas
    idx,          \* main: position of the range loop over hcas
    pfMAC,        \* configureHCA: pfMAC
    octets,       \* assignVFMacs: octets
    pfLastOctet,  \* assignVFMacs: pfLastOctet
    i,            \* assignVFMacs: i
    entries,      \* rebindVFDevices: entries
    j,            \* rebindVFDevices: position of the range loop over entries
    pciAddr,      \* rebindVFDevices: pciAddr
    driverName,   \* rebindVFDevices: driverName
    err,          \* whether the last file operation returned an error
    outcome,      \* per adapter, what main reported for it ("" = not reached)
    log           \* the file operations performed on the device tree, in order

vars == <<numVFsStr, deviceID, baseDir, pc, exitCode, numVFs, hcas, idx, pfMAC,
          octets, pfLastOctet, i, entries, j, pciAddr, driverName, err, outcome, log>>

----------------------------------------------------------------------------
(* Strings and the library functions the program calls. *)

DecDigits == <<"0", "1", "2", "3", "4", "5", "6", "7", "8", "9">>
HexDigits == <<"0", "1", "2", "3", "4", "5", "6", "7", "8", "9", "a", "b", "c", "d", "e", "f">>
UpperHex == <<"A", "B", "C", "D", "E", "F">>
WhiteSpace == {" ", "\n", "\t", "\r"}

Ok(v) == [err |-> FALSE, val |-> v]
Fail == [err |-> TRUE, val |-> <<>>]

\* The Go string as one value, for use as a path component.
RECURSIVE Str(_)
Str(cs) == IF cs = <<>> THEN "" ELSE Head(cs) \o Str(Tail(cs))

Last(s) == s[Len(s)]

IndexIn(c, digits) == CHOOSE k \in 1..Len(digits) : digits[k] = c

IsDigitOf(c, digits) == \E k \in 1..Len(digits) : digits[k] = c

\* Value of the digit string cs in the given base, most significant first.
RECURSIVE DigitsValue(_, _, _)
DigitsValue(cs, base, acc) ==
    IF cs = <<>> THEN acc
    ELSE LET c == Head(cs)
             d == IF IsDigitOf(c, HexDigits) THEN IndexIn(c, HexDigits) - 1
                  ELSE IndexIn(c, UpperHex) + 9
         IN DigitsValue(Tail(cs), base, acc * base + d)

ValidDigits(cs, base) ==
    /\ cs # <<>>
    /\ \A k \in 1..Len(cs) :
          IF base = 10 THEN IsDigitOf(cs[k], DecDigits)
          ELSE IsDigitOf(cs[k], HexDigits) \/ IsDigitOf(cs[k], UpperHex)

\* strconv.ParseInt(s, base, 64) for base 10 and 16: an optional sign, then at
\* least one digit of the base.  The inputs are far below 64 bits.
ParseInt(s, base) ==
    LET signed == s # <<>> /\ Head(s) \in {"+", "-"}
        digits == IF signed THEN Tail(s) ELSE s
    IN IF ~ValidDigits(digits, base) THEN Fail
       ELSE IF signed /\ Head(s) = "-" THEN Ok(0 - DigitsValue(digits, base, 0))
       ELSE Ok(DigitsValue(digits, base, 0))

Atoi(s) == ParseInt(s, 10)

RECURSIVE NatDigits(_, _, _)
NatDigits(n, base, digits) ==
    IF n < base THEN <<digits[n + 1]>>
    ELSE NatDigits(n \div base, base, digits) \o <<digits[(n % base) + 1]>>

Itoa(n) == IF n < 0 THEN <<"-">> \o NatDigits(0 - n, 10, DecDigits) ELSE NatDigits(n, 10, DecDigits)

\* fmt.Sprintf("%02x", v): lower-case hex, zero-padded to a width of two, the
\* sign counting towards the width.
Sprintf02x(v) ==
    LET body == NatDigits(IF v < 0 THEN 0 - v ELSE v, 16, HexDigits)
    IN IF v < 0 THEN <<"-">> \o body
       ELSE IF Len(body) < 2 THEN <<"0">> \o body
       ELSE body

\* Go's % truncates towards zero.
GoRem(a, b) == IF a >= 0 THEN a % b ELSE 0 - ((0 - a) % b)

RECURSIVE TrimLeft(_)
TrimLeft(s) == IF s # <<>> /\ Head(s) \in WhiteSpace THEN TrimLeft(Tail(s)) ELSE s

RECURSIVE TrimRight(_)
TrimRight(s) ==
    IF s # <<>> /\ Last(s) \in WhiteSpace THEN TrimRight(SubSeq(s, 1, Len(s) - 1)) ELSE s

TrimSpace(s) == TrimRight(TrimLeft(s))

\* strings.Split(s, sep) for a one-character sep.
RECURSIVE SplitFrom(_, _, _)
SplitFrom(s, sep, cur) ==
    IF s = <<>> THEN <<cur>>
    ELSE IF Head(s) = sep THEN <<cur>> \o SplitFrom(Tail(s), sep, <<>>)
    ELSE SplitFrom(Tail(s), sep, Append(cur, Head(s)))

Split(s, sep) == SplitFrom(s, sep, <<>>)

HasPrefix(s, prefix) == Len(s) >= Len(prefix) /\ SubSeq(s, 1, Len(prefix)) = prefix

\* filepath.Base of a path that does not end in "." or "..".
Base(path) == Last(path)

----------------------------------------------------------------------------
(* Paths. *)

infinibandBasePath == <<"sys", "class", "infiniband">>

pfDeviceDir(hca) == infinibandBasePath \o <<hca, "device">>

devicePath(hca) == pfDeviceDir(hca) \o <<"device">>

sriovPath(hca) == pfDeviceDir(hca) \o <<"sriov_numvfs">>

addrPath(hca, iface) == pfDeviceDir(hca) \o <<"net", iface, "address">>

vfMacPath(hca, vf) == pfDeviceDir(hca) \o <<"sriov", Str(Itoa(vf)), "mac">>

virtfnPath(hca, name) == pfDeviceDir(hca) \o <<Str(name)>>

vfDriverPath(pci) == <<"sys", "bus", "pci", "devices", pci, "driver">>

unbindPath(driver) == <<"sys", "bus", "pci", "drivers", driver, "unbind">>

bindPath(driver) == <<"sys", "bus", "pci", "drivers", driver, "bind">>

----------------------------------------------------------------------------
(* The environment: configuration values and the contents of the device    *)
(* tree that the run may meet.                                             *)

\* Entries of /sys/class/infiniband, in the filename order os.ReadDir returns.
AdapterNames == <<"mlx5_0", "mlx5_1">>

\* What os.Stat reports for an entry: a directory (through the symlink), some
\* other file, or an error (a dangling symlink).
StatKinds == {"dir", "file", "broken"}

BaseDirListings ==
    { LET all == [k \in 1..Len(AdapterNames) |-> [name |-> AdapterNames[k], kind |-> f[k]]]
      IN SelectSeq(all, LAMBDA e : e.kind # "absent")
      : f \in [1..Len(AdapterNames) -> StatKinds \cup {"absent"}] }

BaseDirs == {Fail} \cup {Ok(l) : l \in BaseDirListings}

NumVFsInputs ==
    {<<>>, <<"2", "x">>, <<"-", "1">>} \cup {Itoa(n) : n \in 0..MaxVFs}

DeviceIDInputs == {<<>>, <<"0", "x", "1", "0", "1", "7">>}

\* Content of <adapter>/device/device, or a read error.
DeviceFiles ==
    {Fail,
     Ok(<<"0", "x", "1", "0", "1", "7", "\n">>),
     Ok(<<"0", "x", "1", "0", "1", "8", "\n">>)}

\* Content of net/<iface>/address: two Ethernet ports of one card (consecutive
\* addresses) and the 20-octet hardware address of an IPoIB interface.
EthAddrFE ==
    <<"b", "8", ":", "c", "e", ":", "f", "6", ":", "1", "2", ":", "3", "4", ":", "f", "e", "\n">>

EthAddrFF ==
    <<"b", "8", ":", "c", "e", ":", "f", "6", ":", "1", "2", ":", "3", "4", ":", "f", "f", "\n">>

IPoIBAddr ==
    <<"0", "0", ":", "0", "0", ":", "1", "0", ":", "2", "9", ":", "f", "e", ":", "8", "0", ":",
      "0", "0", ":", "0", "0", ":", "0", "0", ":", "0", "0", ":", "0", "0", ":", "0", "0", ":",
      "b", "8", ":", "c", "e", ":", "f", "6", ":", "0", "3", ":", "0", "0", ":", "1", "2", ":",
      "3", "4", ":", "f", "e", "\n">>

\* <adapter>/device/net as getPFMac meets it: the listing and the address file
\* of its first interface.
NetDirs ==
    {[list |-> Fail, addr |-> Fail],
     [list |-> Ok(<<>>), addr |-> Fail],
     [list |-> Ok(<<"eth0">>), addr |-> Fail],
     [list |-> Ok(<<"eth0">>), addr |-> Ok(EthAddrFE)],
     [list |-> Ok(<<"eth0">>), addr |-> Ok(EthAddrFF)],
     [list |-> Ok(<<"ib0">>), addr |-> Ok(IPoIBAddr)]}

\* PCI addresses of the VFs of each adapter, by VF index + 1.
VFPciAddrs ==
    [h \in {AdapterNames[k] : k \in 1..Len(AdapterNames)} |->
        IF h = "mlx5_0"
        THEN <<"0000:3b:00.2", "0000:3b:00.3", "0000:3b:00.4", "0000:3b:00.5">>
        ELSE <<"0000:3b:01.2", "0000:3b:01.3", "0000:3b:01.4", "0000:3b:01.5">>]

Virtfn == <<"v", "i", "r", "t", "f", "n">>

\* <adapter>/device once the kernel has created n VFs, in filename order: each
\* entry with the target its symlink has (none for "net").
DeviceDir(hca, n) ==
    <<[name |-> <<"n", "e", "t">>, link |-> <<>>]>> \o
    [k \in 1..n |-> [name |-> Virtfn \o Itoa(k - 1), link |-> <<"..", VFPciAddrs[hca][k]>>]]

\* Target of the driver symlink of a bound VF: the first VF of each adapter is
\* bound to vfio-pci, the others to mlx5_core.
DriverLink(pci) ==
    <<"..", "..", "..", "bus", "pci", "drivers",
      IF \E h \in DOMAIN VFPciAddrs : VFPciAddrs[h][1] = pci THEN "vfio-pci" ELSE "mlx5_core">>

----------------------------------------------------------------------------
(* Records of the file operations performed.  A read carries what it        *)
(* returned.  The result of a write is kept in the record for sriov_numvfs  *)
(* and unbind; for mac and bind writes it is held in err only, their result *)
(* changing nothing but the message printed.                                *)

ReadRec(path, res) == [op |-> "ReadFile", path |-> path, res |-> res]

LinkRec(path, res) == [op |-> "Readlink", path |-> path, res |-> res]

WriteRec(path, data, ok) == [op |-> "WriteFile", path |-> path, data |-> data, ok |-> ok]

WriteAttempt(path, data) == [op |-> "WriteFile", path |-> path, data |-> data]

Outcomes ==
    {"error checking device ID", "device ID mismatch", "failed to get PF MAC",
     "failed to reset sriov_numvfs", "failed to set sriov_numvfs",
     "failed to assign VF MACs", "failed to rebind VF devices", "configured"}

----------------------------------------------------------------------------
(* The program. *)

Init ==
    /\ numVFsStr \in NumVFsInputs
    /\ deviceID \in DeviceIDInputs
    /\ baseDir \in BaseDirs
    /\ pc = "start"
    /\ exitCode = -1
    /\ numVFs = 0
    /\ hcas = <<>>
    /\ idx = 0
    /\ pfMAC = <<>>
    /\ octets = <<>>
    /\ pfLastOctet = 0
    /\ i = 0
    /\ entries = <<>>
    /\ j = 0
    /\ pciAddr = ""
    /\ driverName = ""
    /\ err = FALSE
    /\ outcome = [h \in {AdapterNames[k] : k \in 1..Len(AdapterNames)} |-> ""]
    /\ log = <<>>

\* The values configureHCA and its callees hold, gone when it returns.
ClearLocals ==
    /\ pfMAC' = <<>>
    /\ octets' = <<>>
    /\ pfLastOctet' = 0
    /\ i' = 0
    /\ entries' = <<>>
    /\ j' = 0
    /\ pciAddr' = ""
    /\ driverName' = ""
    /\ err' = FALSE

\* os.Exit(code)
Exit(code) ==
    /\ pc' = "exit"
    /\ exitCode' = code

\* main: NUM_VFS is missing, not a number, or not positive.
InvalidNumVFs(s) == s = <<>> \/ Atoi(s).err \/ Atoi(s).val <= 0

\* Faulty variant of getHCAs: every entry os.Stat can resolve is kept, whether
\* or not it is a directory.
getHCAs_NoDirCheck(dir) ==
    IF dir.err THEN Fail
    ELSE LET ok == SelectSeq(dir.val, LAMBDA e : e.kind # "broken")
         IN Ok([k \in 1..Len(ok) |-> ok[k].name])

\* getHCAs: the entries os.Stat resolves to a directory, in listing order.
getHCAs(dir) ==
    IF dir.err THEN Fail
    ELSE LET dirs == SelectSeq(dir.val, LAMBDA e : e.kind = "dir")
         IN Ok([k \in 1..Len(dirs) |-> dirs[k].name])

\* main, up to the adapter loop.
Main_Start ==
    /\ pc = "start"
    /\ IF InvalidNumVFs(numVFsStr)
       THEN /\ Exit(1)
            /\ UNCHANGED <<numVFs, hcas, idx>>
       ELSE LET r == getHCAs(baseDir)
            IN /\ numVFs' = Atoi(numVFsStr).val
               /\ IF r.err \/ Len(r.val) = 0
                  THEN /\ Exit(1)
                       /\ UNCHANGED <<hcas, idx>>
                  ELSE /\ hcas' = r.val
                       /\ idx' = 1
                       /\ pc' = "loop"
                       /\ UNCHANGED exitCode
    /\ UNCHANGED <<numVFsStr, deviceID, baseDir, pfMAC, octets, pfLastOctet, i, entries, j,
                   pciAddr, driverName, err, outcome, log>>

\* Faulty variant of NextHCA: an adapter's error ends the run with status 1.
NextHCA_AbortOnError(msg) ==
    /\ outcome' = [outcome EXCEPT ![hcas[idx]] = msg]
    /\ IF msg \in {"configured", "device ID mismatch"}
       THEN /\ idx' = idx + 1
            /\ pc' = "loop"
            /\ UNCHANGED exitCode
       ELSE /\ Exit(1)
            /\ UNCHANGED idx
    /\ ClearLocals
    /\ UNCHANGED <<numVFsStr, deviceID, baseDir, numVFs, hcas>>

\* main: what is reported for the current adapter, then `continue` (or the end
\* of the loop body).
NextHCA(msg) ==
    /\ outcome' = [outcome EXCEPT ![hcas[idx]] = msg]
    /\ idx' = idx + 1
    /\ pc' = "loop"
    /\ ClearLocals
    /\ UNCHANGED <<numVFsStr, deviceID, baseDir, exitCode, numVFs, hcas>>

\* Faulty variant of checkDeviceId: the content is compared untrimmed.
checkDeviceId_NoTrim(file, expectedDeviceID) ==
    IF file.err THEN [ok |-> FALSE, err |-> TRUE]
    ELSE [ok |-> file.val = expectedDeviceID, err |-> FALSE]

\* checkDeviceId, given what reading <hca>/device/device returned.
checkDeviceId(file, expectedDeviceID) ==
    IF file.err THEN [ok |-> FALSE, err |-> TRUE]
    ELSE [ok |-> TrimSpace(file.val) = expectedDeviceID, err |-> FALSE]

\* main: the head of the loop body, up to the call of configureHCA.
Main_Loop ==
    /\ pc = "loop"
    /\ idx <= Len(hcas)
    /\ LET hca == hcas[idx]
       IN IF deviceID # <<>>
          THEN \E file \in DeviceFiles :
                  LET r == checkDeviceId(file, deviceID)
                  IN /\ log' = Append(log, ReadRec(devicePath(hca), file))
                     /\ IF r.err THEN NextHCA("error checking device ID")
                        ELSE IF ~r.ok THEN NextHCA("device ID mismatch")
                        ELSE /\ pc' = "configure"
                             /\ UNCHANGED <<numVFsStr, deviceID, baseDir, exitCode, numVFs,
                                            hcas, idx, pfMAC, octets, pfLastOctet, i, entries,
                                            j, pciAddr, driverName, err, outcome>>
          ELSE /\ pc' = "configure"
               /\ UNCHANGED <<numVFsStr, deviceID, baseDir, exitCode, numVFs, hcas, idx,
                              pfMAC, octets, pfLastOctet, i, entries, j, pciAddr, driverName,
                              err, outcome, log>>

\* main: the loop is over; the final message and the return from main.
Main_Done ==
    /\ pc = "loop"
    /\ idx > Len(hcas)
    /\ Exit(0)
    /\ UNCHANGED <<numVFsStr, deviceID, baseDir, numVFs, hcas, idx, pfMAC, octets,
                   pfLastOctet, i, entries, j, pciAddr, driverName, err, outcome, log>>

\* getPFMac, given <hca>/device/net.
getPFMac(net) ==
    IF net.list.err THEN Fail
    ELSE IF Len(net.list.val) = 0 THEN Fail
    ELSE IF net.addr.err THEN Fail
    ELSE Ok(TrimSpace(net.addr.val))

\* configureHCA: the PF MAC.
ConfigureHCA_GetPFMac ==
    /\ pc = "configure"
    /\ \E net \in NetDirs :
          LET r == getPFMac(net)
              hca == hcas[idx]
          IN /\ log' = IF ~net.list.err /\ Len(net.list.val) > 0
                       THEN Append(log, ReadRec(addrPath(hca, net.list.val[1]), net.addr))
                       ELSE log
             /\ IF r.err THEN NextHCA("failed to get PF MAC")
                ELSE /\ pfMAC' = r.val
                     /\ err' = FALSE
                     /\ pc' = "reset"
                     /\ UNCHANGED <<numVFsStr, deviceID, baseDir, exitCode, numVFs, hcas, idx,
                                    octets, pfLastOctet, i, entries, j, pciAddr, driverName,
                                    outcome>>

\* Faulty variant of ConfigureHCA_Reset: the error of the reset is dropped.
ConfigureHCA_Reset_IgnoreError ==
    /\ pc = "reset"
    /\ \E ok \in BOOLEAN :
          /\ log' = Append(log, WriteRec(sriovPath(hcas[idx]), Itoa(0), ok))
          /\ pc' = "set"
          /\ err' = FALSE
          /\ UNCHANGED <<numVFsStr, deviceID, baseDir, exitCode, numVFs, hcas, idx,
                         pfMAC, octets, pfLastOctet, i, entries, j, pciAddr,
                         driverName, outcome>>

\* configureHCA: setSriovNumVFs(hca, 0).
ConfigureHCA_Reset ==
    /\ pc = "reset"
    /\ \E ok \in BOOLEAN :
          /\ log' = Append(log, WriteRec(sriovPath(hcas[idx]), Itoa(0), ok))
          /\ IF ~ok THEN NextHCA("failed to reset sriov_numvfs")
             ELSE /\ pc' = "set"
                  /\ err' = FALSE
                  /\ UNCHANGED <<numVFsStr, deviceID, baseDir, exitCode, numVFs, hcas, idx,
                                 pfMAC, octets, pfLastOctet, i, entries, j, pciAddr,
                                 driverName, outcome>>

\* configureHCA: setSriovNumVFs(hca, numVFs).
ConfigureHCA_Set ==
    /\ pc = "set"
    /\ \E ok \in BOOLEAN :
          /\ log' = Append(log, WriteRec(sriovPath(hcas[idx]), Itoa(numVFs), ok))
          /\ IF ~ok THEN NextHCA("failed to set sriov_numvfs")
             ELSE /\ pc' = "assign"
                  /\ err' = FALSE
                  /\ UNCHANGED <<numVFsStr, deviceID, baseDir, exitCode, numVFs, hcas, idx,
                                 pfMAC, octets, pfLastOctet, i, entries, j, pciAddr,
                                 driverName, outcome>>

\* assignVFMacs: the MAC of VF i, from the PF MAC's octets.
VFMac(o, last, vf) ==
    <<"0", "2">> \o <<":">> \o o[2] \o <<":">> \o o[3] \o <<":">> \o o[4] \o <<":">> \o o[5]
        \o <<":">> \o Sprintf02x(GoRem(last + vf, 256))

\* assignVFMacs, up to its loop: the PF MAC is split and its last octet parsed.
AssignVFMacs_Begin ==
    /\ pc = "assign"
    /\ LET o == Split(pfMAC, ":")
       IN IF Len(o) # 6 THEN NextHCA("failed to assign VF MACs")
          ELSE LET p == ParseInt(o[6], 16)
               IN IF p.err THEN NextHCA("failed to assign VF MACs")
                  ELSE /\ octets' = o
                       /\ pfLastOctet' = p.val
                       /\ i' = 0
                       /\ pc' = "assign_loop"
                       /\ UNCHANGED <<numVFsStr, deviceID, baseDir, exitCode, numVFs, hcas,
                                      idx, pfMAC, entries, j, pciAddr, driverName, err,
                                      outcome>>
    /\ UNCHANGED log

\* assignVFMacs: one pass of the loop over the VF indices, or its end.
AssignVFMacs_Loop ==
    /\ pc = "assign_loop"
    /\ IF i < numVFs
       THEN \E ok \in BOOLEAN :
               /\ log' = Append(log, WriteAttempt(vfMacPath(hcas[idx], i),
                                                  VFMac(octets, pfLastOctet, i)))
               /\ err' = ~ok
               /\ i' = i + 1
               /\ UNCHANGED pc
       ELSE /\ pc' = "rebind"
            /\ err' = FALSE
            /\ UNCHANGED <<i, log>>
    /\ UNCHANGED <<numVFsStr, deviceID, baseDir, exitCode, numVFs, hcas, idx, pfMAC, octets,
                   pfLastOctet, entries, j, pciAddr, driverName, outcome>>

\* rebindVFDevices: the PF's device directory is listed.
Rebind_ReadDir ==
    /\ pc = "rebind"
    /\ \E d \in {Fail, Ok(DeviceDir(hcas[idx], numVFs))} :
          IF d.err THEN NextHCA("failed to rebind VF devices")
          ELSE /\ entries' = d.val
               /\ j' = 1
               /\ pc' = "rebind_loop"
               /\ UNCHANGED <<numVFsStr, deviceID, baseDir, exitCode, numVFs, hcas, idx,
                              pfMAC, octets, pfLastOctet, i, pciAddr, driverName, err,
                              outcome>>
    /\ UNCHANGED log

\* rebindVFDevices: the next entry, up to its driver being known.
Rebind_Entry ==
    /\ pc = "rebind_loop"
    /\ j <= Len(entries)
    /\ LET e == entries[j]
           hca == hcas[idx]
       IN IF ~HasPrefix(e.name, Virtfn)
          THEN /\ j' = j + 1
               /\ UNCHANGED <<pc, pciAddr, driverName, err, log>>
          ELSE \E link \in {Fail, Ok(e.link)} :
                  IF link.err
                  THEN /\ log' = Append(log, LinkRec(virtfnPath(hca, e.name), link))
                       /\ err' = TRUE
                       /\ j' = j + 1
                       /\ UNCHANGED <<pc, pciAddr, driverName>>
                  ELSE LET pci == Base(pfDeviceDir(hca) \o link.val)
                       IN \E drv \in {Fail, Ok(DriverLink(pci))} :
                             /\ log' = log \o <<LinkRec(virtfnPath(hca, e.name), link),
                                                LinkRec(vfDriverPath(pci), drv)>>
                             /\ err' = drv.err
                             /\ IF drv.err
                                THEN /\ j' = j + 1
                                     /\ UNCHANGED <<pc, pciAddr, driverName>>
                                ELSE /\ pciAddr' = pci
                                     /\ driverName' = Base(drv.val)
                                     /\ pc' = "unbind"
                                     /\ UNCHANGED j
    /\ UNCHANGED <<numVFsStr, deviceID, baseDir, exitCode, numVFs, hcas, idx, pfMAC, octets,
                   pfLastOctet, i, entries, outcome>>

\* Faulty variant of Rebind_Unbind: a failed unbind skips the bind.
Rebind_Unbind_SkipBind ==
    /\ pc = "unbind"
    /\ \E ok \in BOOLEAN :
          /\ log' = Append(log, WriteRec(unbindPath(driverName), pciAddr, ok))
          /\ err' = ~ok
          /\ IF ok
             THEN /\ pc' = "bind"
                  /\ UNCHANGED <<j, pciAddr, driverName>>
             ELSE /\ pc' = "rebind_loop"
                  /\ j' = j + 1
                  /\ pciAddr' = ""
                  /\ driverName' = ""
    /\ UNCHANGED <<numVFsStr, deviceID, baseDir, exitCode, numVFs, hcas, idx, pfMAC, octets,
                   pfLastOctet, i, entries, outcome>>

\* rebindVFDevices: the write to the driver's unbind file.
Rebind_Unbind ==
    /\ pc = "unbind"
    /\ \E ok \in BOOLEAN :
          /\ log' = Append(log, WriteRec(unbindPath(driverName), pciAddr, ok))
          /\ err' = ~ok
    /\ pc' = "bind"
    /\ UNCHANGED <<numVFsStr, deviceID, baseDir, exitCode, numVFs, hcas, idx, pfMAC, octets,
                   pfLastOctet, i, entries, j, pciAddr, driverName, outcome>>

\* rebindVFDevices: the write to the driver's bind file; the loop goes on.
Rebind_Bind ==
    /\ pc = "bind"
    /\ \E ok \in BOOLEAN :
          /\ log' = Append(log, WriteAttempt(bindPath(driverName), pciAddr))
          /\ err' = ~ok
    /\ pc' = "rebind_loop"
    /\ j' = j + 1
    /\ pciAddr' = ""
    /\ driverName' = ""
    /\ UNCHANGED <<numVFsStr, deviceID, baseDir, exitCode, numVFs, hcas, idx, pfMAC, octets,
                   pfLastOctet, i, entries, outcome>>

\* rebindVFDevices and configureHCA return nil.
Rebind_Return ==
    /\ pc = "rebind_loop"
    /\ j > Len(entries)
    /\ NextHCA("configured")
    /\ UNCHANGED log

Next ==
    \/ Main_Start
    \/ Main_Loop
    \/ Main_Done
    \/ ConfigureHCA_GetPFMac
    \/ ConfigureHCA_Reset
    \/ ConfigureHCA_Set
    \/ AssignVFMacs_Begin
    \/ AssignVFMacs_Loop
    \/ Rebind_ReadDir
    \/ Rebind_Entry
    \/ Rebind_Unbind
    \/ Rebind_Bind
    \/ Rebind_Return

Spec == Init /\ [][Next]_vars

----------------------------------------------------------------------------
(* Reading the log. *)

Adapters == {AdapterNames[k] : k \in 1..Len(AdapterNames)}

IsWrite(r) == r.op = "WriteFile"

IsNumVFsWrite(r) == IsWrite(r) /\ Len(r.path) = 6 /\ r.path[6] = "sriov_numvfs"

IsMacWrite(r) == IsWrite(r) /\ Len(r.path) = 8 /\ r.path[8] = "mac"

IsUnbind(r) == IsWrite(r) /\ Len(r.path) = 6 /\ r.path[2] = "bus" /\ r.path[6] = "unbind"

IsBind(r) == IsWrite(r) /\ Len(r.path) = 6 /\ r.path[2] = "bus" /\ r.path[6] = "bind"

IsVirtfnLink(r) == r.op = "Readlink" /\ r.path[2] = "class"

IsDriverLink(r) == r.op = "Readlink" /\ r.path[2] = "bus"

\* The adapter a PCI address is a VF of.
AdapterOfPci(pci) ==
    CHOOSE h \in Adapters : \E k \in 1..Len(VFPciAddrs[h]) : VFPciAddrs[h][k] = pci

\* The adapter a write is made for.
WriteAdapter(r) == IF r.path[2] = "class" THEN r.path[4] ELSE AdapterOfPci(r.data)

WritesOf(h) == SelectSeq(log, LAMBDA r : IsWrite(r) /\ WriteAdapter(r) = h)

MacWrites == SelectSeq(log, IsMacWrite)

DeviceReads(h) == SelectSeq(log, LAMBDA r : r.op = "ReadFile" /\ r.path = devicePath(h))

TrailingOctet(mac) == SubSeq(mac, Len(mac) - 1, Len(mac))

\* What main reports for an adapter on which configureHCA was called.
ConfigureOutcomes ==
    {"failed to get PF MAC", "failed to reset sriov_numvfs", "failed to set sriov_numvfs",
     "failed to assign VF MACs", "failed to rebind VF devices", "configured"}

\* The listing of the base directory has no entry that is a directory.
NoAdapterDir == \A k \in 1..Len(baseDir.val) : baseDir.val[k].kind # "dir"

----------------------------------------------------------------------------
(* The documented address scheme (README, "Unique VF MACs"): 02, then the   *)
(* first eight hex digits of /etc/machine-id as four octets, then a counter *)
(* shared by all adapters.                                                  *)

\* Content of /etc/machine-id on the host of the run.
MachineID ==
    <<"7", "9", "a", "0", "e", "6", "4", "b", "1", "2", "3", "4", "5", "6", "7", "8",
      "9", "a", "b", "c", "d", "e", "f", "0", "1", "2", "3", "4", "5", "6", "7", "8">>

MachinePrefix(id) ==
    SubSeq(id, 1, 2) \o <<":">> \o SubSeq(id, 3, 4) \o <<":">> \o SubSeq(id, 5, 6)
        \o <<":">> \o SubSeq(id, 7, 8)

\* C1: the MAC addresses written to VF mac files in one run are pairwise
\* distinct, on one adapter and across adapters, whatever the PF MACs are.
C1_MacsPairwiseDistinct ==
    \A p, q \in 1..Len(MacWrites) : p # q => MacWrites[p].data # MacWrites[q].data

\* C2: the last octet of the k-th VF MAC assignment attempted in the run is
\* k-1 as two-digit hex; the counter is not reset between adapters.
C2_GlobalCounter ==
    \A k \in 1..Len(MacWrites) : TrailingOctet(MacWrites[k].data) = Sprintf02x(k - 1)

\* C3: every MAC written is 02:<prefix>:<xx>, the prefix being the first 8 hex
\* characters of the machine identity in four groups of two; so octets 1 to 4
\* are the same for every VF of every adapter and owe nothing to a PF MAC.
C3_MachinePrefix ==
    \A k \in 1..Len(MacWrites) :
        LET mac == MacWrites[k].data
        IN /\ Len(mac) = 17
           /\ SubSeq(mac, 1, 15) = <<"0", "2", ":">> \o MachinePrefix(MachineID) \o <<":">>
           /\ \A c \in 16..17 : IsDigitOf(mac[c], HexDigits)

\* C4: the value encoded in the trailing octet is never wrapped: an assignment
\* that needs a value above 255 fails and writes no MAC, so the octet of the
\* MAC just written for a VF is the value that VF needed, not that value
\* modulo 256.
C4_NoSilentWrap ==
    (pc = "assign_loop" /\ i > 0) =>
        /\ pfLastOctet + (i - 1) <= 255
        /\ ParseInt(TrailingOctet(Last(log).data), 16).val = pfLastOctet + (i - 1)

\* C5: NUM_VFS=0 is accepted: with adapters present the run does not exit with
\* an error, each configured adapter has 0 written to sriov_numvfs twice and
\* nothing else, and no VF MAC is written.
C5_ZeroDisablesVFs ==
    (numVFsStr = <<"0">> /\ pc = "exit" /\ ~baseDir.err /\ ~NoAdapterDir) =>
        /\ exitCode = 0
        /\ MacWrites = <<>>
        /\ \A h \in Adapters :
              outcome[h] = "configured" =>
                  WritesOf(h) = <<WriteRec(sriovPath(h), <<"0">>, TRUE),
                                  WriteRec(sriovPath(h), <<"0">>, TRUE)>>

----------------------------------------------------------------------------
(* Order of the writes, filtering and the outcome of the run. *)

IsRebindWrite(r) == IsUnbind(r) \/ IsBind(r)

\* C6: the writes made for an adapter come in the order: 0 to sriov_numvfs,
\* then NUM_VFS to sriov_numvfs, then the VF MACs by increasing VF index, then
\* the unbind/bind writes; a failed sriov_numvfs write is the adapter's last
\* write.
C6_WriteOrder ==
    \A h \in Adapters :
        LET W == WritesOf(h)
            M == SelectSeq(W, IsMacWrite)
        IN /\ Len(W) >= 1 => (W[1].path = sriovPath(h) /\ W[1].data = <<"0">>)
           /\ Len(W) >= 2 =>
                 (W[1].ok /\ W[2].path = sriovPath(h) /\ W[2].data = Itoa(numVFs))
           /\ Len(W) >= 3 => W[2].ok
           /\ \A k \in 3..Len(W) : IsMacWrite(W[k]) \/ IsRebindWrite(W[k])
           /\ \A k, l \in 3..Len(W) : (k < l /\ IsRebindWrite(W[k])) => IsRebindWrite(W[l])
           /\ \A m \in 1..Len(M) : M[m].path = vfMacPath(h, m - 1)

\* One adapter stopped at a failed sriov_numvfs write, the other went through
\* both sriov_numvfs writes, two MAC writes and a rebind.
C6_Witness ==
    /\ Len(hcas) = 2
    /\ LET A == WritesOf(hcas[1])
           B == WritesOf(hcas[2])
       IN /\ Len(A) = 2
          /\ ~A[2].ok
          /\ Len(B) >= 6
          /\ IsMacWrite(B[3])
          /\ IsMacWrite(B[4])
          /\ IsUnbind(B[5])
          /\ IsBind(B[6])

\* An upper bound on the number of steps main has left: per adapter still to
\* handle, one more than the longest path through the loop body, plus what is
\* left of the body for the current adapter.
PerAdapter == 12 + 4 * numVFs

StepsLeftInBody ==
    CASE pc = "loop" -> PerAdapter - 1
      [] pc = "configure" -> PerAdapter - 2
      [] pc = "reset" -> PerAdapter - 3
      [] pc = "set" -> PerAdapter - 4
      [] pc = "assign" -> PerAdapter - 5
      [] pc = "assign_loop" -> PerAdapter - 6 - i
      [] pc = "rebind" -> PerAdapter - 7 - numVFs
      [] pc = "rebind_loop" -> PerAdapter - 5 - numVFs - 3 * j
      [] pc = "unbind" -> PerAdapter - 6 - numVFs - 3 * j
      [] pc = "bind" -> PerAdapter - 7 - numVFs - 3 * j

StepsLeft ==
    CASE pc = "exit" -> 0
      [] pc = "start" -> (Len(AdapterNames) + 1) * (12 + 4 * MaxVFs) + 1
      [] OTHER -> (Len(hcas) + 1 - idx) * PerAdapter + StepsLeftInBody

\* C7: once the adapters are enumerated, the run goes through every one of
\* them whatever fails on the way, and ends with exit status 0: it can always
\* take a step until it has exited, every step brings the exit nearer, an
\* adapter is left only with its outcome reported, and the exit after the
\* loop has status 0 with every adapter handled.
C7_RunCompletes ==
    /\ [](/\ pc # "exit" => ENABLED Next
          /\ StepsLeft >= 0
          /\ pc \notin {"start", "exit"} =>
                \A k \in 1..Len(hcas) : k < idx => outcome[hcas[k]] \in Outcomes
          /\ (pc = "exit" /\ Len(hcas) > 0) =>
                /\ exitCode = 0
                /\ \A k \in 1..Len(hcas) : outcome[hcas[k]] \in Outcomes)
    /\ [][StepsLeft' < StepsLeft]_vars

\* The run is over with status 0, the first adapter failed and the second was
\* configured.
C7_Witness ==
    /\ pc = "exit"
    /\ exitCode = 0
    /\ Len(hcas) = 2
    /\ outcome[hcas[1]] \in Outcomes \ {"configured", "device ID mismatch"}
    /\ outcome[hcas[2]] = "configured"
    /\ WritesOf(hcas[2]) # <<>>

\* C8: if NUM_VFS is missing or is no number or is negative, or the base
\* directory cannot be listed or holds no adapter directory, the run performs
\* no file operation on the device tree and exits with a non-zero status.
C8_FatalBeforeAnyWrite ==
    (\/ numVFsStr = <<>>
     \/ Atoi(numVFsStr).err
     \/ Atoi(numVFsStr).val < 0
     \/ baseDir.err
     \/ NoAdapterDir) =>
        /\ log = <<>>
        /\ pc \in {"start", "exit"}
        /\ pc = "exit" => exitCode > 0

\* NUM_VFS is fine and the base directory has entries, none a directory: the
\* run has exited with status 1.
C8_Witness ==
    /\ pc = "exit"
    /\ exitCode = 1
    /\ ~InvalidNumVFs(numVFsStr)
    /\ ~baseDir.err
    /\ Len(baseDir.val) > 0
    /\ NoAdapterDir
    /\ log = <<>>

\* configureHCA has been called for the adapter.
ConfigureCalled(h) ==
    \/ outcome[h] \in ConfigureOutcomes
    \/ (pc \notin {"start", "loop", "exit"} /\ hcas[idx] = h)

\* The adapter's device/device was read and, trimmed, equals DEVICE_ID.
DeviceMatches(h) ==
    /\ Len(DeviceReads(h)) = 1
    /\ ~DeviceReads(h)[1].res.err
    /\ TrimSpace(DeviceReads(h)[1].res.val) = deviceID

\* C9: with DEVICE_ID set, writes are made only for an adapter whose trimmed
\* device/device content equals DEVICE_ID; an adapter whose content differs
\* or cannot be read gets no write; one that matches is configured.  With
\* DEVICE_ID unset every enumerated adapter is configured.
C9_DeviceFilter ==
    /\ deviceID # <<>> =>
          \A h \in Adapters :
              /\ WritesOf(h) # <<>> => DeviceMatches(h)
              /\ (Len(DeviceReads(h)) > 0 /\ ~DeviceMatches(h)) =>
                    /\ WritesOf(h) = <<>>
                    /\ outcome[h] \in {"error checking device ID", "device ID mismatch"}
              /\ DeviceMatches(h) => ConfigureCalled(h)
    /\ deviceID = <<>> =>
          \A k \in 1..Len(hcas) :
              (k < idx \/ pc = "exit") => outcome[hcas[k]] \in ConfigureOutcomes

\* DEVICE_ID is set; the first adapter's content differs and it has no write,
\* the second matches after trimming the newline and has been written to.
C9_Witness ==
    /\ deviceID # <<>>
    /\ Len(hcas) = 2
    /\ outcome[hcas[1]] = "device ID mismatch"
    /\ WritesOf(hcas[1]) = <<>>
    /\ DeviceMatches(hcas[2])
    /\ DeviceReads(hcas[2])[1].res.val # deviceID
    /\ outcome[hcas[2]] = "configured"
    /\ Len(WritesOf(hcas[2])) > 2

VirtfnLinksOf(path) == SelectSeq(log, LAMBDA r : IsVirtfnLink(r) /\ r.path = path)

\* C10: in the rebind step a virtfn* entry whose PCI address and driver are
\* resolved gets one unbind write directly followed by one bind write of its
\* PCI address to that driver's files, the bind also after a failed unbind;
\* an entry whose symlink or driver is not resolved gets neither; and every
\* virtfn* entry of the listing is visited once.
C10_Rebind ==
    /\ \A p \in 1..Len(log) :
          LET r == log[p]
              last == p = Len(log)
          IN /\ IsVirtfnLink(r) =>
                   IF r.res.err
                   THEN ~last => (~IsDriverLink(log[p + 1]) /\ ~IsRebindWrite(log[p + 1]))
                   ELSE /\ ~last
                        /\ IsDriverLink(log[p + 1])
                        /\ log[p + 1].path = vfDriverPath(Last(r.res.val))
             /\ IsDriverLink(r) =>
                   /\ p > 1
                   /\ IsVirtfnLink(log[p - 1])
                   /\ ~log[p - 1].res.err
                   /\ IF r.res.err
                      THEN ~last => ~IsRebindWrite(log[p + 1])
                      ELSE IF last
                      THEN pc = "unbind" /\ pciAddr = r.path[5] /\ driverName = Last(r.res.val)
                      ELSE /\ IsUnbind(log[p + 1])
                           /\ log[p + 1].path = unbindPath(Last(r.res.val))
                           /\ log[p + 1].data = r.path[5]
             /\ IsUnbind(r) =>
                   /\ p > 1
                   /\ IsDriverLink(log[p - 1])
                   /\ ~log[p - 1].res.err
                   /\ IF last THEN pc = "bind"
                      ELSE /\ IsBind(log[p + 1])
                           /\ log[p + 1].path = bindPath(r.path[5])
                           /\ log[p + 1].data = r.data
             /\ IsBind(r) => (p > 1 /\ IsUnbind(log[p - 1]))
    /\ \A h \in Adapters : \A k \in 0..(numVFs - 1) :
          LET n == Len(VirtfnLinksOf(virtfnPath(h, Virtfn \o Itoa(k))))
          IN /\ n <= 1
             /\ outcome[h] = "configured" => n = 1

\* An adapter's rebind is complete: its first entry's symlink was not
\* resolved, and a later entry had a failed unbind followed by its bind.
C10_Witness ==
    \E h \in Adapters :
        /\ outcome[h] = "configured"
        /\ \E p, q \in 1..Len(log) :
              /\ p < q
              /\ IsVirtfnLink(log[p])
              /\ log[p].path = virtfnPath(h, Virtfn \o <<"0">>)
              /\ log[p].res.err
              /\ IsUnbind(log[q])
              /\ ~log[q].ok
              /\ AdapterOfPci(log[q].data) = h
              /\ IsBind(log[q + 1])

====
